---------------------------- MODULE Spec2Model ----------------------------
(***************************************************************************)
(* A model of ScaleCircle (pitch-class circle generator): the interval     *)
(* parser and layout engine of utils.js, the live renderer of script.js    *)
(* and the exporter of export.js.                                          *)
(*                                                                         *)
(* Texts are sequences of one-character strings.  Finite numbers are       *)
(* fixed-point integers in thousandths (700 cents is 700000); a JavaScript *)
(* number is a record [k, v] with k one of "fin", "nan", "inf", "-inf".    *)
(* Angles are exact rationals [k, n, d].  Math.cos and Math.sin are not    *)
(* evaluated: a point computed from them is kept as the polar record       *)
(* [cx, cy, r, deg] it was computed from.                                  *)
(***************************************************************************)
EXTENDS Integers, Sequences, FiniteSets, TLC

VARIABLES
    periodInput,     \* value of the period text field
    intervalsTA,     \* value of the intervals textarea
    showCircle,      \* checkbox
    showRays,        \* checkbox
    showLabels,      \* checkbox
    circleSize,      \* slider value, a text
    labelDistance,   \* control value, a text
    labelSize,       \* control value, a text
    exportFilename,  \* the export filename field: present or not, its value
    panel,           \* layout of the host panel, as the browser reports it
    container,       \* size of .svg-wrap as draw() left it
    dims,            \* the dims of the last draw() (history)
    svg,             \* the live scene: attributes and children of #svg
    exports,         \* raster exports clicked so far: closure state of each
    downloads,       \* files handed to the browser, in order
    console,         \* console.error lines
    call,            \* harness: the function applied and its arguments
    ret              \* harness: its return value

vars == <<periodInput, intervalsTA, showCircle, showRays, showLabels,
          circleSize, labelDistance, labelSize, exportFilename, panel,
          container, dims, svg, exports, downloads, console, call, ret>>

dom == <<periodInput, intervalsTA, showCircle, showRays, showLabels,
         circleSize, labelDistance, labelSize, exportFilename, panel,
         container, dims, svg>>

(***************************************************************************)
(* Bounds of the model.                                                    *)
(***************************************************************************)
MaxTokLen == 3
MaxLines == 2
MaxCents == 6
MaxK == 2
MaxExports == 2
MaxNameLen == 3

(***************************************************************************)
(* Numbers.                                                                *)
(***************************************************************************)
Scale == 10 * 10 * 10

Fin(v) == [k |-> "fin", v |-> v]
NaN == [k |-> "nan", v |-> 0]
PosInf == [k |-> "inf", v |-> 0]
NegInf == [k |-> "-inf", v |-> 0]

isFinite(x) == x.k = "fin"

Abs(i) == IF i < 0 THEN -i ELSE i
Min(a, b) == IF a <= b THEN a ELSE b
Max(a, b) == IF a >= b THEN a ELSE b

RECURSIVE Gcd(_, _)
Gcd(a, b) == IF b = 0 THEN a ELSE Gcd(b, a % b)

\* floor and ceiling of a thousandths value, to a thousandths value
Floor(v) == (v \div Scale) * Scale
Ceil(v) == -Floor(-v)

(***************************************************************************)
(* Characters and the string methods the parser uses.                      *)
(***************************************************************************)
\* a const of the code: v is evaluated once and named by the parameter of F
Let(v, F(_)) == F(v)

Digits == {"0", "1", "2", "3", "4", "5", "6", "7", "8", "9"}

DigitOf(c) ==
    CASE c = "0" -> 0 [] c = "1" -> 1 [] c = "2" -> 2 [] c = "3" -> 3
      [] c = "4" -> 4 [] c = "5" -> 5 [] c = "6" -> 6 [] c = "7" -> 7
      [] c = "8" -> 8 [] c = "9" -> 9

\* the white space of String.prototype.trim and of the regular expression \s
IsSpace(c) == c \in {" ", "\t", "\r", "\n"}

\* [c¢] under the i flag
IsCentMark(c) == c \in {"c", "C", "¢"}

RECURSIVE TrimLeft(_)
TrimLeft(s) == IF s # <<>> /\ IsSpace(Head(s)) THEN TrimLeft(Tail(s)) ELSE s

RECURSIVE TrimRight(_)
TrimRight(s) ==
    IF s # <<>> /\ IsSpace(s[Len(s)])
    THEN TrimRight(SubSeq(s, 1, Len(s) - 1))
    ELSE s

Trim(s) == TrimRight(TrimLeft(s))

Includes(s, c) == \E i \in 1..Len(s) : s[i] = c

AllDigits(s) == \A i \in 1..Len(s) : s[i] \in Digits

\* indices of the occurrences of c in s
Positions(s, c) == {i \in 1..Len(s) : s[i] = c}

\* the first element of a non-empty set of integers
Least(S) == CHOOSE i \in S : \A j \in S : i <= j

\* String.prototype.split(c): the pieces of s between the occurrences of c
RECURSIVE Split(_, _)
Split(s, c) ==
    IF Positions(s, c) = {}
    THEN <<s>>
    ELSE LET i == Least(Positions(s, c))
         IN <<SubSeq(s, 1, i - 1)>> \o Split(SubSeq(s, i + 1, Len(s)), c)

\* the value of a digit string as an integer
RECURSIVE DigitsVal(_)
DigitsVal(s) ==
    IF s = <<>> THEN 0
    ELSE 10 * DigitsVal(SubSeq(s, 1, Len(s) - 1)) + DigitOf(s[Len(s)])

\* the value of the digits after a decimal point, in thousandths
FracVal(s) ==
    LET p == SubSeq(s \o <<"0", "0", "0">>, 1, 3)
    IN DigitsVal(p)

(***************************************************************************)
(* Number(s): StringToNumber on a text of digits, sign, point, white space *)
(* and other characters.  The exponent, hexadecimal and Infinity forms     *)
(* need letters the inputs of this model do not contain.                   *)
(***************************************************************************)
Number(s) ==
    Let(Trim(s), LAMBDA t :
    Let(IF t # <<>> /\ Head(t) \in {"-", "+"} THEN Tail(t) ELSE t, LAMBDA u :
    Let(Positions(u, "."), LAMBDA dots :
       LET neg == t # <<>> /\ Head(t) = "-"
           valid == /\ u # <<>>
                    /\ \A i \in 1..Len(u) : u[i] \in Digits \cup {"."}
                    /\ Cardinality(dots) <= 1
                    /\ \E i \in 1..Len(u) : u[i] \in Digits
           ip == IF dots = {} THEN u ELSE SubSeq(u, 1, Least(dots) - 1)
           fp == IF dots = {} THEN <<>>
                 ELSE SubSeq(u, Least(dots) + 1, Len(u))
           mag == DigitsVal(ip) * Scale + FracVal(fp)
       IN IF t = <<>> THEN Fin(0)
          ELSE IF ~valid THEN NaN
          ELSE Fin(IF neg THEN -mag ELSE mag))))


(***************************************************************************)
(* utils.js: the interval parser.                                          *)
(***************************************************************************)
\* a ratio a/b of two finite numbers, b # 0, as a reduced fraction n/d, d > 0
Ratio(a, b) ==
    LET g == Gcd(Abs(a), Abs(b))
        s == IF b < 0 THEN -1 ELSE 1
    IN [k |-> "rat", n |-> s * (a \div g), d |-> s * (b \div g)]

NoRatio == [k |-> "null", n |-> 0, d |-> 1]

\* a parseRatio that returns a instead of a / b
parseRatioNumerator(str) ==
    Let(Trim(str), LAMBDA s :
       IF s = <<>> THEN NoRatio
       ELSE IF Includes(s, "/")
            THEN Let(Split(s, "/"), LAMBDA parts :
                 Let(Number(parts[1]), LAMBDA a :
                 Let(Number(parts[2]), LAMBDA b :
                    IF isFinite(a) /\ isFinite(b) /\ b.v # 0
                    THEN Ratio(a.v, Scale)
                    ELSE NoRatio)))
            ELSE Let(Number(s), LAMBDA n :
                    IF isFinite(n) /\ n.v > 0
                    THEN Ratio(n.v, Scale)
                    ELSE NoRatio))

parseRatio(str) ==
    Let(Trim(str), LAMBDA s :
       IF s = <<>> THEN NoRatio
       ELSE IF Includes(s, "/")
            THEN Let(Split(s, "/"), LAMBDA parts :
                 Let(Number(parts[1]), LAMBDA a :
                 Let(Number(parts[2]), LAMBDA b :
                    IF isFinite(a) /\ isFinite(b) /\ b.v # 0
                    THEN Ratio(a.v, b.v)
                    ELSE NoRatio)))
            ELSE Let(Number(s), LAMBDA n :
                    IF isFinite(n) /\ n.v > 0
                    THEN Ratio(n.v, Scale)
                    ELSE NoRatio))

\* 1200 * log2(p) for a prime p, in thousandths of a cent
PrimeCents ==
    2 :> 1200000 @@ 3 :> 1901955 @@ 5 :> 2786314 @@ 7 :> 3368826 @@
    11 :> 4151318 @@ 13 :> 4440528 @@ 17 :> 4904955 @@ 19 :> 5097513 @@
    23 :> 5428274 @@ 29 :> 5829577 @@ 31 :> 5945036 @@ 37 :> 6251344 @@
    41 :> 6429062 @@ 43 :> 6511518 @@ 47 :> 6665507 @@ 53 :> 6873505 @@
    59 :> 7059172 @@ 61 :> 7116885 @@ 67 :> 7279307 @@ 71 :> 7379697 @@
    73 :> 7427789 @@ 79 :> 7564537 @@ 83 :> 7650047 @@ 89 :> 7770880 @@
    97 :> 7919895 @@ 101 :> 7989854 @@ 103 :> 8023801 @@ 107 :> 8089760 @@
    109 :> 8121821 @@ 113 :> 8184215 @@ 127 :> 8386422 @@ 131 :> 8440108 @@
    137 :> 8517638 @@ 139 :> 8542729 @@ 149 :> 8663002 @@ 151 :> 8686086 @@
    157 :> 8753545 @@ 163 :> 8818474 @@ 167 :> 8860445 @@ 173 :> 8921554 @@
    179 :> 8980579 @@ 181 :> 8999815 @@ 191 :> 9092915 @@ 193 :> 9110948 @@
    197 :> 9146462 @@ 199 :> 9163950 @@ 211 :> 9265319 @@ 223 :> 9361080 @@
    227 :> 9391858 @@ 229 :> 9407045 @@ 233 :> 9437023 @@ 239 :> 9481040 @@
    241 :> 9495467 @@ 251 :> 9565852 @@ 257 :> 9606749 @@
    521 :> 10830167

\* 1200 * log2(n) for an integer n >= 1, summed over its prime factors,
\* the least first
RECURSIVE CentsOfInt(_, _)
CentsOfInt(n, p) ==
    IF n = 1 THEN 0
    ELSE Let(Least({q \in DOMAIN PrimeCents : q >= p /\ n % q = 0}),
             LAMBDA q : PrimeCents[q] + CentsOfInt(n \div q, q))

\* 1200 * log2(r), log2 = x => Math.log(x) / Math.LN2: Math.log(0) is
\* -Infinity and Math.log of a negative number is NaN
log2Cents(r) ==
    IF r.n = 0 THEN NegInf
    ELSE IF r.n < 0 THEN NaN
    ELSE Fin(CentsOfInt(r.n, 2) - CentsOfInt(r.d, 2))

\* /^-?\d+(?:\.\d+)?(?:c|¢)?$/i
CentsPattern(s) ==
    LET a == IF s # <<>> /\ Head(s) = "-" THEN Tail(s) ELSE s
    IN Let(IF a # <<>> /\ IsCentMark(a[Len(a)])
           THEN SubSeq(a, 1, Len(a) - 1)
           ELSE a, LAMBDA b :
       Let(Positions(b, "."), LAMBDA dots :
          /\ b # <<>>
          /\ \A i \in 1..Len(b) : b[i] \in Digits \cup {"."}
          /\ \/ dots = {}
             \/ /\ Cardinality(dots) = 1
                /\ Least(dots) > 1
                /\ Least(dots) < Len(b)))

\* s.replace(/\s/g, '')
RemoveSpaces(s) == SelectSeq(s, LAMBDA c : ~IsSpace(c))

\* s.replace(/[c¢]/ig, '')
StripCentMarks(s) == SelectSeq(s, LAMBDA c : ~IsCentMark(c))

Null == [cents |-> NaN, raw |-> <<>>, type |-> "null"]

\* a parseCentsOrRatioToCents whose cents token is labelled without its unit
parseCentsOrRatioToCentsBareLabel(token) ==
    Let(Trim(token), LAMBDA raw :
       IF raw = <<>> \/ Head(raw) = "#" THEN Null
       ELSE Let(RemoveSpaces(raw), LAMBDA centsLike :
            Let(Number(StripCentMarks(centsLike)), LAMBDA n :
               IF CentsPattern(centsLike) /\ isFinite(n)
               THEN [cents |-> n, raw |-> StripCentMarks(raw), type |-> "cents"]
               ELSE Let(parseRatio(raw), LAMBDA r :
                       IF r.k # "null"
                       THEN [cents |-> log2Cents(r), raw |-> raw,
                             type |-> "ratio"]
                       ELSE Null))))

parseCentsOrRatioToCents(token) ==
    Let(Trim(token), LAMBDA raw :
       IF raw = <<>> \/ Head(raw) = "#" THEN Null
       ELSE Let(RemoveSpaces(raw), LAMBDA centsLike :
            Let(Number(StripCentMarks(centsLike)), LAMBDA n :
               IF CentsPattern(centsLike) /\ isFinite(n)
               THEN [cents |-> n, raw |-> raw, type |-> "cents"]
               ELSE Let(parseRatio(raw), LAMBDA r :
                       IF r.k # "null"
                       THEN [cents |-> log2Cents(r), raw |-> raw,
                             type |-> "ratio"]
                       ELSE Null))))

parsePeriodToCents(str) ==
    Let(Trim(str), LAMBDA s :
       IF s = <<>> THEN NaN
       ELSE IF CentsPattern(s) THEN Number(StripCentMarks(s))
       ELSE Let(parseRatio(s), LAMBDA r :
               IF r.k # "null" THEN log2Cents(r) ELSE NaN))


(***************************************************************************)
(* utils.js: the layout engine.                                            *)
(***************************************************************************)
DigitChar(d) ==
    CASE d = 0 -> "0" [] d = 1 -> "1" [] d = 2 -> "2" [] d = 3 -> "3"
      [] d = 4 -> "4" [] d = 5 -> "5" [] d = 6 -> "6" [] d = 7 -> "7"
      [] d = 8 -> "8" [] d = 9 -> "9"

\* the decimal digits of an integer n >= 0
RECURSIVE IntText(_)
IntText(n) ==
    IF n < 10 THEN <<DigitChar(n)>>
    ELSE IntText(n \div 10) \o <<DigitChar(n % 10)>>

\* x.toFixed(0): the nearest integer, a tie going away from zero
toFixed0(x) ==
    LET m == (Abs(x.v) + Scale \div 2) \div Scale
    IN CASE x.k = "nan" -> <<"N", "a", "N">>
         [] x.k = "inf" -> <<"I", "n", "f", "i", "n", "i", "t", "y">>
         [] x.k = "-inf" -> <<"-", "I", "n", "f", "i", "n", "i", "t", "y">>
         [] x.k = "fin" -> IF x.v < 0 /\ m > 0 THEN <<"-">> \o IntText(m)
                           ELSE IF x.v < 0 THEN <<"-", "0">>
                           ELSE IntText(m)

normalizePeriodLabel(inputValue, periodCents) ==
    Let(Trim(inputValue), LAMBDA s :
       IF s = <<>> THEN toFixed0(periodCents)
       ELSE IF Includes(s, "/") THEN s
       ELSE IF CentsPattern(s) THEN Trim(StripCentMarks(s))
       ELSE toFixed0(periodCents))

\* an angle in degrees: the fraction n/d in lowest terms, d > 0, or NaN
Deg(n, d) == [k |-> "fin", n |-> n, d |-> d]
DegNaN == [k |-> "nan", n |-> 0, d |-> 1]

\* a degOf without the final % 360
degOfUnwrapped(cents, periodCents) ==
    IF ~isFinite(cents) \/ ~isFinite(periodCents) \/ periodCents.v = 0
    THEN DegNaN
    ELSE LET p == Abs(periodCents.v)
             m == Abs(cents.v)
             g == Gcd(m, p)
             n == 360 * (m \div g)
             d == p \div g
             h == Gcd(n, d)
             sgn == IF (cents.v < 0) # (periodCents.v < 0) THEN -1 ELSE 1
         IN Deg(sgn * (n \div h), d \div h)

\* ((cents / periodCents) * 360) % 360.  The % of JavaScript takes the sign
\* of its left operand; anything divided by zero, or not finite, gives NaN.
degOf(cents, periodCents) ==
    IF ~isFinite(cents) \/ ~isFinite(periodCents) \/ periodCents.v = 0
    THEN DegNaN
    ELSE LET p == Abs(periodCents.v)
             m == Abs(cents.v) % p
             g == Gcd(m, p)
             n == 360 * (m \div g)
             d == p \div g
             h == Gcd(n, d)
             sgn == IF (cents.v < 0) # (periodCents.v < 0) THEN -1 ELSE 1
         IN Deg(sgn * (n \div h), d \div h)

\* a coordinate: a number, or c + f((deg - 90) * PI / 180) * r, f cos or sin
Lit(v) == [k |-> "lit", f |-> "none", c |-> v, r |-> 0, deg |-> Deg(0, 1)]
Trig(f, c, r, deg) == [k |-> "trig", f |-> f, c |-> c, r |-> r, deg |-> deg]

\* intervalsText.split(/\r?\n/)
SplitLines(text) ==
    Let(Split(text, "\n"), LAMBDA parts :
       LET n == Len(parts)
       IN [i \in 1..n |->
             IF i < n /\ parts[i] # <<>> /\ parts[i][Len(parts[i])] = "\r"
             THEN SubSeq(parts[i], 1, Len(parts[i]) - 1)
             ELSE parts[i]])

\* the loop of buildItems, every line placed
RECURSIVE PlacedLines(_, _, _, _, _)
PlacedLines(lines, cx, cy, radius, periodCents) ==
    IF lines = <<>> THEN <<>>
    ELSE Let(parseCentsOrRatioToCents(Head(lines)), LAMBDA it :
         Let(degOf(it.cents, periodCents), LAMBDA deg :
            (IF it = Null THEN <<>>
             ELSE <<[cents |-> it.cents, raw |-> it.raw, type |-> it.type,
                     deg |-> deg,
                     x |-> Trig("cos", cx, radius, deg),
                     y |-> Trig("sin", cy, radius, deg)]>>)
            \o PlacedLines(Tail(lines), cx, cy, radius, periodCents)))

\* a loop that keeps one item per angle
IntervalItemsDedup(lines, cx, cy, radius, periodCents) ==
    Let(PlacedLines(lines, cx, cy, radius, periodCents), LAMBDA all :
       LET keep == {j \in 1..Len(all) :
                      \A i \in 1..(j - 1) : all[i].deg # all[j].deg}
           RECURSIVE Pick(_)
           Pick(j) == IF j > Len(all) THEN <<>>
                      ELSE (IF j \in keep THEN <<all[j]>> ELSE <<>>)
                           \o Pick(j + 1)
       IN Pick(1))

\* the loop of buildItems over the lines
RECURSIVE IntervalItems(_, _, _, _, _)
IntervalItems(lines, cx, cy, radius, periodCents) ==
    IF lines = <<>> THEN <<>>
    ELSE Let(parseCentsOrRatioToCents(Head(lines)), LAMBDA it :
         Let(degOf(it.cents, periodCents), LAMBDA deg :
            (IF it = Null THEN <<>>
             ELSE <<[cents |-> it.cents, raw |-> it.raw, type |-> it.type,
                     deg |-> deg,
                     x |-> Trig("cos", cx, radius, deg),
                     y |-> Trig("sin", cy, radius, deg)]>>)
            \o IntervalItems(Tail(lines), cx, cy, radius, periodCents)))

\* a buildItems that pushes the period after the intervals
buildItemsPeriodLast(periodInputValue, intervalsText, cx, cy, radius, periodCents) ==
    PlacedLines(SplitLines(intervalsText), cx, cy, radius, periodCents)
    \o <<[cents |-> Fin(0),
          raw |-> normalizePeriodLabel(periodInputValue, periodCents),
          type |-> "period",
          deg |-> Deg(0, 1),
          x |-> Lit(cx),
          y |-> Lit(cy - radius)]>>

buildItems(periodInputValue, intervalsText, cx, cy, radius, periodCents) ==
    <<[cents |-> Fin(0),
       raw |-> normalizePeriodLabel(periodInputValue, periodCents),
       type |-> "period",
       deg |-> Deg(0, 1),
       x |-> Lit(cx),
       y |-> Lit(cy - radius)]>>
    \o IntervalItems(SplitLines(intervalsText), cx, cy, radius, periodCents)

PADDING == 60
MIN_RADIUS == 20
MIN_DIMENSION == 400
LABEL_DISTANCE == 35
EXPORT_PADDING == 30
EXPORT_MIN_SIZE == 300
EXPORT_SCALE == 2

\* a calculateDimensions that scales the padding instead of the radius
calculateDimensionsScaledPadding(containerRect, circleSizeMultiplier) ==
    LET W == Max(containerRect.width, MIN_DIMENSION * Scale)
        H == Max(containerRect.height, MIN_DIMENSION * Scale)
        radius == Min(W, H) \div 2 - PADDING * circleSizeMultiplier
    IN [W |-> W, H |-> H, cx |-> W \div 2, cy |-> H \div 2, radius |-> radius]

calculateDimensions(containerRect, circleSizeMultiplier) ==
    LET W == Max(containerRect.width, MIN_DIMENSION * Scale)
        H == Max(containerRect.height, MIN_DIMENSION * Scale)
        maxRadius == Min(W, H) \div 2 - PADDING * Scale
        baseRadius == Max(MIN_RADIUS * Scale, maxRadius)
        radius == (baseRadius * circleSizeMultiplier) \div Scale
    IN [W |-> W, H |-> H, cx |-> W \div 2, cy |-> H \div 2, radius |-> radius]


(***************************************************************************)
(* The page before any script has run, and the harness at rest.            *)
(***************************************************************************)
NoPage ==
    /\ periodInput = <<>>
    /\ intervalsTA = <<>>
    /\ showCircle = TRUE
    /\ showRays = TRUE
    /\ showLabels = TRUE
    /\ circleSize = <<>>
    /\ labelDistance = <<>>
    /\ labelSize = <<>>
    /\ exportFilename = [present |-> TRUE, value |-> <<>>]
    /\ panel = [width |-> 0, height |-> 0, headerH |-> 0, padTop |-> 0,
                padBottom |-> 0]
    /\ container = [width |-> 0, height |-> 0]
    /\ dims = [W |-> 0, H |-> 0, cx |-> 0, cy |-> 0, radius |-> 0]
    /\ svg = [width |-> 0, height |-> 0, children |-> <<>>]
    /\ exports = <<>>
    /\ downloads = <<>>
    /\ console = <<>>

page == <<dom, exports, downloads, console>>

\* all texts of at most n characters of S
Texts(S, n) == UNION {[1..m -> S] : m \in 0..n}

(***************************************************************************)
(* SpecParse: parseCentsOrRatioToCents applied to every token of at most   *)
(* MaxTokLen characters of TokenChars.                                     *)
(***************************************************************************)
TokenChars ==
    {"0", "1", "2", "5", "-", ".", "/", "c", "C", "¢", " ", "#", "a"}

InitParse ==
    /\ NoPage
    /\ \E t \in Texts(TokenChars, MaxTokLen) :
          call = [fn |-> "parseCentsOrRatioToCents", token |-> t, done |-> FALSE]
    /\ ret = Null

CallParse ==
    /\ ~call.done
    /\ call.fn = "parseCentsOrRatioToCents"
    /\ ret' = parseCentsOrRatioToCents(call.token)
    /\ call' = [call EXCEPT !.done = TRUE]
    /\ UNCHANGED page

NextParse == CallParse

SpecParse == InitParse /\ [][NextParse]_vars

(***************************************************************************)
(* SpecAngle: the angle expression of buildItems applied to cents and to   *)
(* cents + k * period, for whole cents and periods up to MaxCents.         *)
(***************************************************************************)
InitAngle ==
    /\ NoPage
    /\ \E c \in -MaxCents..MaxCents, p \in (-MaxCents..MaxCents) \ {0},
          k \in -MaxK..MaxK :
          call = [fn |-> "deg", cents |-> Fin(c * Scale),
                  periodCents |-> Fin(p * Scale), k |-> k, done |-> FALSE]
    /\ ret = <<DegNaN, DegNaN>>

CallAngle ==
    /\ ~call.done
    /\ ret' = <<degOf(call.cents, call.periodCents),
                degOf(Fin(call.cents.v + call.k * call.periodCents.v),
                      call.periodCents)>>
    /\ call' = [call EXCEPT !.done = TRUE]
    /\ UNCHANGED page

NextAngle == CallAngle

SpecAngle == InitAngle /\ [][NextAngle]_vars

(***************************************************************************)
(* SpecItems: buildItems applied, as draw and createExportSVG apply it     *)
(* (periodCents = parsePeriodToCents(period text)), to every period text   *)
(* of PeriodTexts and every interval text of at most MaxLines lines of     *)
(* LineTexts, joined by "\n" or by "\r\n".                                 *)
(***************************************************************************)
PeriodTexts ==
    { <<>>, <<"1", "2">>, <<"-", "1", "2">>, <<"1", "2", "c">>,
      <<"2", "/", "1">>, <<"0">>, <<"0", "/", "1">>, <<"a">>, <<"2", ".">> }

LineTexts ==
    { <<>>, <<"#", "3">>, <<"3">>, <<"-", "3">>, <<"1", "5">>, <<"-", "9">>,
      <<" ", "3", "c">>, <<"2", "/", "1">>, <<"0", "/", "1">>, <<"a">> }

RECURSIVE Join(_, _)
Join(lines, sep) ==
    IF Len(lines) = 1 THEN lines[1]
    ELSE lines[1] \o sep \o Join(Tail(lines), sep)

LineSeqs == UNION {[1..m -> LineTexts] : m \in 1..MaxLines}

InitItems ==
    /\ NoPage
    /\ \E p \in PeriodTexts, ls \in LineSeqs, sep \in {<<"\n">>, <<"\r", "\n">>},
          radius \in {140 * Scale, 70 * Scale} :
          call = [fn |-> "buildItems", periodInputValue |-> p, lines |-> ls,
                  intervalsText |-> Join(ls, sep), cx |-> 200 * Scale,
                  cy |-> 200 * Scale, radius |-> radius,
                  periodCents |-> parsePeriodToCents(p), done |-> FALSE]
    /\ ret = <<>>

CallItems ==
    /\ ~call.done
    /\ call.fn = "buildItems"
    /\ ret' = buildItems(call.periodInputValue, call.intervalsText, call.cx,
                         call.cy, call.radius, call.periodCents)
    /\ call' = [call EXCEPT !.done = TRUE]
    /\ UNCHANGED page

NextItems == CallItems

SpecItems == InitItems /\ [][NextItems]_vars


(***************************************************************************)
(* script.js and export.js: the two renderers.  A scene is the width and   *)
(* height of an svg element and the sequence of its children.              *)
(***************************************************************************)
POINT_RADIUS == 5200

\* the number of leading digits of s
RECURSIVE DigitRun(_)
DigitRun(s) ==
    IF s # <<>> /\ Head(s) \in Digits THEN 1 + DigitRun(Tail(s)) ELSE 0

\* parseFloat(s): the longest prefix of s that is a decimal literal
parseFloat(s) ==
    Let(TrimLeft(s), LAMBDA t :
    Let(IF t # <<>> /\ Head(t) \in {"-", "+"} THEN Tail(t) ELSE t, LAMBDA u :
    Let(DigitRun(u), LAMBDA a :
    Let(IF Len(u) > a /\ u[a + 1] = "."
        THEN DigitRun(SubSeq(u, a + 2, Len(u)))
        ELSE 0, LAMBDA b :
       LET neg == t # <<>> /\ Head(t) = "-"
           mag == DigitsVal(SubSeq(u, 1, a)) * Scale
                  + FracVal(SubSeq(u, a + 2, a + 1 + b))
       IN IF a = 0 /\ b = 0 THEN NaN
          ELSE Fin(IF neg THEN -mag ELSE mag)))))

\* parseFloat(labelDistance?.value || DEFAULTS.LABEL_DISTANCE)
labelDistOf(value) ==
    IF value = <<>> THEN Fin(LABEL_DISTANCE * Scale) ELSE parseFloat(value)

RectEl(w, h, stroke) ==
    [tag |-> "rect", x |-> 0, y |-> 0, width |-> w, height |-> h,
     fill |-> "white", stroke |-> stroke]

CircleEl(cx, cy, r) ==
    [tag |-> "circle", cx |-> cx, cy |-> cy, r |-> r, fill |-> "none",
     stroke |-> "black"]

\* one ray: from the centre to the circle at the item's angle
RayEl(item, cx, cy, radius) ==
    [tag |-> "line", x1 |-> Lit(cx), y1 |-> Lit(cy),
     x2 |-> Trig("cos", cx, radius, item.deg),
     y2 |-> Trig("sin", cy, radius, item.deg), stroke |-> "black"]

\* one group: the point of an item and, when labels are shown, its label
GroupEl(item, cx, cy, labelRadius, fontSize, showLabelsEnabled) ==
    [tag |-> "g",
     pt |-> [cx |-> item.x, cy |-> item.y, r |-> POINT_RADIUS,
             fill |-> "black"],
     label |-> IF showLabelsEnabled
               THEN <<[x |-> Trig("cos", cx, labelRadius, item.deg),
                       y |-> Trig("sin", cy, labelRadius, item.deg),
                       fontSize |-> fontSize, text |-> item.raw]>>
               ELSE <<>>]

\* a drawRays whose rays stop halfway to the circle
drawRaysHalfway(items, cx, cy, radius) ==
    [i \in 1..Len(items) |-> RayEl(items[i], cx, cy, radius \div 2)]

drawRays(items, cx, cy, radius) ==
    [i \in 1..Len(items) |-> RayEl(items[i], cx, cy, radius)]

\* a drawPointsAndLabels that draws a point only with its label
drawPointsAndLabelsTogether(items, cx, cy, radius, d) ==
    Let(radius + labelDistOf(d.labelDistance).v, LAMBDA labelRadius :
       IF d.showLabels
       THEN [i \in 1..Len(items) |->
               GroupEl(items[i], cx, cy, labelRadius, d.labelSize, TRUE)]
       ELSE <<>>)

drawPointsAndLabels(items, cx, cy, radius, d) ==
    Let(radius + labelDistOf(d.labelDistance).v, LAMBDA labelRadius :
       [i \in 1..Len(items) |->
          GroupEl(items[i], cx, cy, labelRadius, d.labelSize, d.showLabels)])

\* the values of the controls and the layout of the panel, read by a draw
Controls ==
    [periodInput |-> periodInput, intervalsTA |-> intervalsTA,
     showCircle |-> showCircle, showRays |-> showRays,
     showLabels |-> showLabels, circleSize |-> circleSize,
     labelDistance |-> labelDistance, labelSize |-> labelSize,
     panel |-> panel]

\* the side of the square draw() gives the wrapper
squareSizeOf(pn) ==
    LET availableH == Max(0, pn.height - pn.headerH - pn.padTop
                             - pn.padBottom - 18 * Scale)
        availableW == pn.width
    IN Max(MIN_DIMENSION * Scale, Floor(Min(availableW, availableH)))

\* a draw() whose early return forgets the zero period
drawIgnoresZero(d) ==
    Let(squareSizeOf(d.panel), LAMBDA squareSize :
    Let([width |-> squareSize, height |-> squareSize], LAMBDA containerRect :
    Let(calculateDimensions(containerRect, parseFloat(d.circleSize).v),
        LAMBDA dm :
    Let(parsePeriodToCents(d.periodInput), LAMBDA periodCents :
       [container |-> containerRect,
        dims |-> dm,
        svg |-> [width |-> dm.W, height |-> dm.H,
                 children |->
                    IF ~isFinite(periodCents)
                    THEN <<RectEl(dm.W, dm.H, "none")>>
                    ELSE Let(buildItems(d.periodInput, d.intervalsTA, dm.cx,
                                        dm.cy, dm.radius, periodCents),
                             LAMBDA items :
                            <<RectEl(dm.W, dm.H, "none")>>
                            \o (IF d.showCircle
                                THEN <<CircleEl(dm.cx, dm.cy, dm.radius)>>
                                ELSE <<>>)
                            \o (IF d.showRays
                                THEN drawRays(items, dm.cx, dm.cy, dm.radius)
                                ELSE <<>>)
                            \o drawPointsAndLabels(items, dm.cx, dm.cy,
                                                   dm.radius, d))]]))))

\* draw(): clears the svg, sizes the wrapper, and rebuilds the scene
draw(d) ==
    Let(squareSizeOf(d.panel), LAMBDA squareSize :
    Let([width |-> squareSize, height |-> squareSize], LAMBDA containerRect :
    Let(calculateDimensions(containerRect, parseFloat(d.circleSize).v),
        LAMBDA dm :
    Let(parsePeriodToCents(d.periodInput), LAMBDA periodCents :
       [container |-> containerRect,
        dims |-> dm,
        svg |-> [width |-> dm.W, height |-> dm.H,
                 children |->
                    IF ~isFinite(periodCents) \/ periodCents.v = 0
                    THEN <<RectEl(dm.W, dm.H, "none")>>
                    ELSE Let(buildItems(d.periodInput, d.intervalsTA, dm.cx,
                                        dm.cy, dm.radius, periodCents),
                             LAMBDA items :
                            <<RectEl(dm.W, dm.H, "none")>>
                            \o (IF d.showCircle
                                THEN <<CircleEl(dm.cx, dm.cy, dm.radius)>>
                                ELSE <<>>)
                            \o (IF d.showRays
                                THEN drawRays(items, dm.cx, dm.cy, dm.radius)
                                ELSE <<>>)
                            \o drawPointsAndLabels(items, dm.cx, dm.cy,
                                                   dm.radius, d))]]))))

\* a calculateExportDimensions that leaves room for labels that are hidden
calculateExportDimensionsAlwaysLabels(d, rect) ==
    Let(calculateDimensions(rect, parseFloat(d.circleSize).v), LAMBDA dm :
       LET labelDist == labelDistOf(d.labelDistance).v
           totalRadius == dm.radius + labelDist
       IN Let(Max(EXPORT_MIN_SIZE * Scale,
                  Ceil((totalRadius + EXPORT_PADDING * Scale) * 2)),
              LAMBDA size :
             [size |-> size, radius |-> dm.radius, cx |-> size \div 2,
              cy |-> size \div 2]))

\* a calculateExportDimensions that leaves no room for the labels
calculateExportDimensionsNoLabelRoom(d, rect) ==
    Let(calculateDimensions(rect, parseFloat(d.circleSize).v), LAMBDA dm :
       LET labelDist == 0
           totalRadius == dm.radius + labelDist
       IN Let(Max(EXPORT_MIN_SIZE * Scale,
                  Ceil((totalRadius + EXPORT_PADDING * Scale) * 2)),
              LAMBDA size :
             [size |-> size, radius |-> dm.radius, cx |-> size \div 2,
              cy |-> size \div 2]))

calculateExportDimensions(d, rect) ==
    Let(calculateDimensions(rect, parseFloat(d.circleSize).v), LAMBDA dm :
       LET labelDist == IF d.showLabels THEN labelDistOf(d.labelDistance).v
                        ELSE 0
           totalRadius == dm.radius + labelDist
       IN Let(Max(EXPORT_MIN_SIZE * Scale,
                  Ceil((totalRadius + EXPORT_PADDING * Scale) * 2)),
              LAMBDA size :
             [size |-> size, radius |-> dm.radius, cx |-> size \div 2,
              cy |-> size \div 2]))

\* a createExportSVG that places the items on the largest circle of its frame
createExportSVGFitted(d, rect) ==
    Let(calculateExportDimensions(d, rect), LAMBDA dm :
    Let(parsePeriodToCents(d.periodInput), LAMBDA periodCents :
       [width |-> dm.size, height |-> dm.size,
        children |->
           IF ~isFinite(periodCents) \/ periodCents.v = 0
           THEN <<RectEl(dm.size, dm.size, "")>>
           ELSE Let(buildItems(d.periodInput, d.intervalsTA, dm.cx, dm.cy,
                               dm.size \div 2 - EXPORT_PADDING * Scale,
                               periodCents),
                    LAMBDA items :
                   <<RectEl(dm.size, dm.size, "")>>
                   \o (IF d.showCircle
                       THEN <<CircleEl(dm.cx, dm.cy, dm.radius)>>
                       ELSE <<>>)
                   \o (IF d.showRays
                       THEN drawRays(items, dm.cx, dm.cy, dm.radius)
                       ELSE <<>>)
                   \o drawPointsAndLabels(items, dm.cx, dm.cy, dm.radius,
                                          d))]))

createExportSVG(d, rect) ==
    Let(calculateExportDimensions(d, rect), LAMBDA dm :
    Let(parsePeriodToCents(d.periodInput), LAMBDA periodCents :
       [width |-> dm.size, height |-> dm.size,
        children |->
           IF ~isFinite(periodCents) \/ periodCents.v = 0
           THEN <<RectEl(dm.size, dm.size, "")>>
           ELSE Let(buildItems(d.periodInput, d.intervalsTA, dm.cx, dm.cy,
                               dm.radius, periodCents),
                    LAMBDA items :
                   <<RectEl(dm.size, dm.size, "")>>
                   \o (IF d.showCircle
                       THEN <<CircleEl(dm.cx, dm.cy, dm.radius)>>
                       ELSE <<>>)
                   \o (IF d.showRays
                       THEN drawRays(items, dm.cx, dm.cy, dm.radius)
                       ELSE <<>>)
                   \o drawPointsAndLabels(items, dm.cx, dm.cy, dm.radius,
                                          d))]))

(***************************************************************************)
(* The events of the page.  An input or resize event runs draw() to its    *)
(* end before the next event is taken.                                     *)
(***************************************************************************)
\* a clearSVG that removes nothing
clearSVGKeepsAll(children) == children

\* clearSVG: while (svg.firstChild) svg.removeChild(svg.firstChild)
clearSVG(children) == <<>>

\* the controls take the values d and the listener redraws: draw() clears
\* the surface and appends the scene
Redraw(d) ==
    /\ periodInput' = d.periodInput
    /\ intervalsTA' = d.intervalsTA
    /\ showCircle' = d.showCircle
    /\ showRays' = d.showRays
    /\ showLabels' = d.showLabels
    /\ circleSize' = d.circleSize
    /\ labelDistance' = d.labelDistance
    /\ labelSize' = d.labelSize
    /\ panel' = d.panel
    /\ \E r \in {draw(d)} :
          /\ container' = r.container
          /\ dims' = r.dims
          /\ svg' = [r.svg EXCEPT !.children = clearSVG(svg.children) \o @]
    /\ UNCHANGED exportFilename

NoCall == [fn |-> "none", done |-> TRUE]

LivePeriods ==
    { <<"2", "/", "1">>, <<"1", "2">>, <<>>, <<"a">>, <<"0">>,
      <<"0", "/", "1">>, <<"-", "1", "/", "2">> }

LiveIntervals == { <<"3">>, <<"-", "3", "\n", "#", "\n", "1", "5">> }

CircleSizes == { <<"1">>, <<"0", ".", "5">> }

LabelDistances == { <<"3", "5">>, <<"0">>, <<>> }

LabelSizes == { <<"1", "4">> }

\* panel layouts: width, height, height of the h2, paddings
Panels ==
    { [width |-> 640 * Scale, height |-> 700 * Scale, headerH |-> 40 * Scale,
       padTop |-> 12 * Scale, padBottom |-> 12 * Scale],
      [width |-> 300 * Scale, height |-> 500 * Scale, headerH |-> 40 * Scale,
       padTop |-> 12 * Scale, padBottom |-> 12 * Scale],
      [width |-> 900 * Scale + 500, height |-> 560 * Scale + 250,
       headerH |-> 0, padTop |-> 0, padBottom |-> 0] }

InitialControls ==
    [periodInput |-> <<"2", "/", "1">>, intervalsTA |-> <<"3">>,
     showCircle |-> TRUE, showRays |-> TRUE, showLabels |-> TRUE,
     circleSize |-> <<"1">>, labelDistance |-> <<"3", "5">>,
     labelSize |-> <<"1", "4">>,
     panel |-> [width |-> 640 * Scale, height |-> 700 * Scale,
                headerH |-> 40 * Scale, padTop |-> 12 * Scale,
                padBottom |-> 12 * Scale]]

\* the page once script.js has run: the initial draw() is done
Loaded ==
    /\ periodInput = InitialControls.periodInput
    /\ intervalsTA = InitialControls.intervalsTA
    /\ showCircle = InitialControls.showCircle
    /\ showRays = InitialControls.showRays
    /\ showLabels = InitialControls.showLabels
    /\ circleSize = InitialControls.circleSize
    /\ labelDistance = InitialControls.labelDistance
    /\ labelSize = InitialControls.labelSize
    /\ panel = InitialControls.panel
    /\ \E r \in {draw(InitialControls)} :
          /\ container = r.container
          /\ dims = r.dims
          /\ svg = r.svg
    /\ exportFilename = [present |-> TRUE, value |-> <<>>]
    /\ exports = <<>>
    /\ downloads = <<>>
    /\ console = <<>>
    /\ call = NoCall
    /\ ret = <<>>

nonDom == <<exports, downloads, console, call, ret>>

InputPeriod(p) ==
    /\ Redraw([Controls EXCEPT !.periodInput = p])
    /\ UNCHANGED nonDom

InputIntervals(t) ==
    /\ Redraw([Controls EXCEPT !.intervalsTA = t])
    /\ UNCHANGED nonDom

ToggleCircle ==
    /\ Redraw([Controls EXCEPT !.showCircle = ~showCircle])
    /\ UNCHANGED nonDom

ToggleRays ==
    /\ Redraw([Controls EXCEPT !.showRays = ~showRays])
    /\ UNCHANGED nonDom

ToggleLabels ==
    /\ Redraw([Controls EXCEPT !.showLabels = ~showLabels])
    /\ UNCHANGED nonDom

\* a slider without its input listener: the value changes, nothing is drawn
InputCircleSizeNoRedraw(v) ==
    /\ circleSize' = v
    /\ UNCHANGED <<periodInput, intervalsTA, showCircle, showRays, showLabels,
                   labelDistance, labelSize, exportFilename, panel, container,
                   dims, svg>>
    /\ UNCHANGED nonDom

InputCircleSize(v) ==
    /\ Redraw([Controls EXCEPT !.circleSize = v])
    /\ UNCHANGED nonDom

InputLabelDistance(v) ==
    /\ Redraw([Controls EXCEPT !.labelDistance = v])
    /\ UNCHANGED nonDom

InputLabelSize(v) ==
    /\ Redraw([Controls EXCEPT !.labelSize = v])
    /\ UNCHANGED nonDom

Resize(pn) ==
    /\ Redraw([Controls EXCEPT !.panel = pn])
    /\ UNCHANGED nonDom

(***************************************************************************)
(* Spec: the live page under input and resize events.                      *)
(***************************************************************************)
Init == Loaded

Next ==
    \/ \E p \in LivePeriods : InputPeriod(p)
    \/ \E t \in LiveIntervals : InputIntervals(t)
    \/ ToggleCircle
    \/ ToggleRays
    \/ ToggleLabels
    \/ \E v \in CircleSizes : InputCircleSize(v)
    \/ \E v \in LabelDistances : InputLabelDistance(v)
    \/ \E v \in LabelSizes : InputLabelSize(v)
    \/ \E pn \in Panels : Resize(pn)

Spec == Init /\ [][Next]_vars

(***************************************************************************)
(* export.js: the export handlers.  A raster export is the closure of one  *)
(* handleRasterExport call: its format, svgString, squareSize, canvas and  *)
(* image, and where it stands: "loading" (img.src set, decode pending),    *)
(* "encoding" (toBlob pending), "done" or "failed".  The fields shot,      *)
(* decoded and loads are history: the scene createExportSVG returned at    *)
(* the click, how the decode ended, how often a decode was started, and    *)
(* (named) the file name the filename field gave at the click.             *)
(***************************************************************************)
DefaultName ==
    <<"p", "i", "t", "c", "h", "-", "c", "l", "a", "s", "s", "-",
      "c", "i", "r", "c", "l", "e">>

\* a getFilename that forgets the trim
getFilenameUntrimmed(extension) ==
    LET name == IF exportFilename.present /\ exportFilename.value # <<>>
                THEN exportFilename.value
                ELSE DefaultName
    IN name \o <<".">> \o extension

getFilename(extension) ==
    LET name == IF exportFilename.present /\ Trim(exportFilename.value) # <<>>
                THEN Trim(exportFilename.value)
                ELSE DefaultName
    IN name \o <<".">> \o extension

ExtensionOf(format) ==
    IF format = "jpg" THEN <<"j", "p", "g">> ELSE <<"p", "n", "g">>

MimeOf(format) == IF format = "jpg" THEN "image/jpeg" ELSE "image/png"

\* export clicks handled so far
Clicks == Len(exports) + Cardinality({k \in 1..Len(downloads) : downloads[k].id = 0})

\* handleSvgExport: the scene is serialized and downloaded within the click
ClickExportSvg ==
    /\ Clicks < MaxExports
    /\ downloads' = Append(downloads,
          [id |-> 0, name |-> getFilename(<<"s", "v", "g">>),
           type |-> "image/svg+xml",
           content |-> [xml |-> createExportSVG(Controls, container)]])
    /\ UNCHANGED <<dom, exports, console, call, ret>>

\* parseInt of the decimal text of a thousandths value: the digits before
\* the point
parseInt(v) == IF v >= 0 THEN Floor(v) ELSE Ceil(v)

\* a handleRasterExport whose canvas has the size of the export frame
ClickExportRasterUnscaled(format) ==
    /\ Clicks < MaxExports
    /\ \E exportSvg \in {createExportSVG(Controls, container)} :
          LET squareSize == parseInt(exportSvg.width)
          IN exports' = Append(exports,
                [format |-> format,
                 svgString |-> [xml |-> exportSvg],
                 squareSize |-> squareSize,
                 canvas |-> [width |-> squareSize,
                             height |-> squareSize,
                             fill |-> "none", drawn |-> <<>>],
                 stage |-> "loading",
                 shot |-> exportSvg, decoded |-> "pending", loads |-> 1,
                 named |-> getFilename(ExtensionOf(format))])
    /\ UNCHANGED <<dom, downloads, console, call, ret>>

\* handleRasterExport up to img.src = svgUrl
ClickExportRaster(format) ==
    /\ Clicks < MaxExports
    /\ \E exportSvg \in {createExportSVG(Controls, container)} :
          LET squareSize == parseInt(exportSvg.width)
          IN exports' = Append(exports,
                [format |-> format,
                 svgString |-> [xml |-> exportSvg],
                 squareSize |-> squareSize,
                 canvas |-> [width |-> squareSize * EXPORT_SCALE,
                             height |-> squareSize * EXPORT_SCALE,
                             fill |-> "none", drawn |-> <<>>],
                 stage |-> "loading",
                 shot |-> exportSvg, decoded |-> "pending", loads |-> 1,
                 named |-> getFilename(ExtensionOf(format))])
    /\ UNCHANGED <<dom, downloads, console, call, ret>>

\* the image an export's img element decodes: its own svgString
imgLive(i) == createExportSVG(Controls, container)

imgOf(i) == exports[i].svgString.xml

\* the canvas an export's callbacks draw to and encode: its own
canvasShared(i) == Len(exports)

canvasOwner(i) == i

\* img.onload: fill for jpg, scale, drawImage, toBlob requested
ImgOnload(i) ==
    /\ i \in 1..Len(exports)
    /\ exports[i].stage = "loading"
    /\ LET e == exports[i]
           c == canvasOwner(i)
           painted == [exports[c].canvas EXCEPT
                          !.fill = IF e.format = "jpg" THEN "white" ELSE @,
                          !.drawn = Append(@, [image |-> imgOf(i),
                                               scale |-> EXPORT_SCALE,
                                               width |-> e.squareSize,
                                               height |-> e.squareSize])]
       IN exports' = [[exports EXCEPT ![i].stage = "encoding",
                                      ![i].decoded = "ok"]
                         EXCEPT ![c].canvas = painted]
    /\ UNCHANGED <<dom, downloads, console, call, ret>>

\* an error handler that goes on to encode the canvas
ImgOnerrorEncodes(i) ==
    /\ i \in 1..Len(exports)
    /\ exports[i].stage = "loading"
    /\ exports' = [exports EXCEPT ![i].stage = "encoding",
                                  ![i].decoded = "error"]
    /\ console' = Append(console, "[export] Image loading failed:")
    /\ UNCHANGED <<dom, downloads, call, ret>>

\* img.onerror: console.error, and nothing else
ImgOnerror(i) ==
    /\ i \in 1..Len(exports)
    /\ exports[i].stage = "loading"
    /\ exports' = [exports EXCEPT ![i].stage = "failed",
                                  ![i].decoded = "error"]
    /\ console' = Append(console, "[export] Image loading failed:")
    /\ UNCHANGED <<dom, downloads, call, ret>>

\* a toBlob callback that uses the file name read at the click
ToBlobCallbackNamedAtClick(i) ==
    /\ i \in 1..Len(exports)
    /\ exports[i].stage = "encoding"
    /\ downloads' = Append(downloads,
          [id |-> i, name |-> exports[i].named,
           type |-> MimeOf(exports[i].format),
           content |-> exports[canvasOwner(i)].canvas])
    /\ exports' = [exports EXCEPT ![i].stage = "done"]
    /\ UNCHANGED <<dom, console, call, ret>>

\* the callback of canvas.toBlob: the download
ToBlobCallback(i) ==
    /\ i \in 1..Len(exports)
    /\ exports[i].stage = "encoding"
    /\ downloads' = Append(downloads,
          [id |-> i, name |-> getFilename(ExtensionOf(exports[i].format)),
           type |-> MimeOf(exports[i].format),
           content |-> exports[canvasOwner(i)].canvas])
    /\ exports' = [exports EXCEPT ![i].stage = "done"]
    /\ UNCHANGED <<dom, console, call, ret>>

(***************************************************************************)
(* SpecExport: export clicks, at most MaxExports of them, among input     *)
(* events of the label toggle (each changes the scene and the export      *)
(* size), with the decode and encode callbacks of the exports in flight   *)
(* taken in any order.                                                     *)
(***************************************************************************)
NextExport ==
    \/ ToggleLabels
    \/ ClickExportSvg
    \/ \E format \in {"png", "jpg"} : ClickExportRaster(format)
    \/ \E i \in 1..MaxExports : ImgOnload(i)
    \/ \E i \in 1..MaxExports : ImgOnerror(i)
    \/ \E i \in 1..MaxExports : ToBlobCallback(i)

SpecExport == Loaded /\ [][NextExport]_vars

(***************************************************************************)
(* SpecNames: export clicks, at most MaxExports of them, among edits of    *)
(* the filename field, with the callbacks of the exports in flight taken   *)
(* in any order.  The filename field has no listener: an edit changes the  *)
(* value of the field and draws nothing.                                   *)
(***************************************************************************)
FieldValues == { <<>>, <<"a", " ">> }

InputFilename(v) ==
    /\ exportFilename.value # v
    /\ exportFilename' = [exportFilename EXCEPT !.value = v]
    /\ UNCHANGED <<periodInput, intervalsTA, showCircle, showRays, showLabels,
                   circleSize, labelDistance, labelSize, panel, container,
                   dims, svg, exports, downloads, console, call, ret>>

NextNames ==
    \/ \E v \in FieldValues : InputFilename(v)
    \/ ClickExportSvg
    \/ \E format \in {"png", "jpg"} : ClickExportRaster(format)
    \/ \E i \in 1..MaxExports : ImgOnload(i)
    \/ \E i \in 1..MaxExports : ImgOnerror(i)
    \/ \E i \in 1..MaxExports : ToBlobCallback(i)

SpecNames == Loaded /\ [][NextNames]_vars

(***************************************************************************)
(* SpecLines: the parser on every token of SpecParse, and buildItems on    *)
(* the periods and interval texts of the documented scenarios.             *)
(***************************************************************************)
ScenarioPeriods ==
    { <<"2", "/", "1">>, <<"1", "2", "0", "0">>,
      <<"1", "2", "0", "0", "c">>, <<"3", "/", "1">>,
      <<"6", "0", "0">> }

\* interval texts, as their lines
ScenarioIntervals ==
    { <<<<"0">>, <<"7", "0", "0">>, <<"1", "2", "0", "0">>>>,
      <<<<"#", "i", "g", "n", "o", "r", "e", " ", "t", "h", "i", "s">>, <<>>, <<"4", "0", "0">>>>,
      <<<<"#", " ", "c", "o", "m", "m", "e", "n", "t">>, <<>>, <<"4", "0", "0">>>>,
      <<<<"7", "0", "0", "c">>, <<"3", "/", "2">>, <<"1", ".", "5">>>>,
      <<<<"a", "b", "c">>, <<"3", "8", "6", ".", "3", "1", "4", "c">>>>,
      <<<<"5", "/", "4">>, <<" ", "1", "2", "0", "0", " ">>>>,
      <<<<"3", "/", "2", "/", "a", "b", "c">>>>,
      <<<<"3", "/", "2", "/", "7">>>> }

InitScenarios ==
    /\ NoPage
    /\ \E p \in ScenarioPeriods, ls \in ScenarioIntervals,
          sep \in {<<"\n">>, <<"\r", "\n">>} :
          call = [fn |-> "buildItems", periodInputValue |-> p, lines |-> ls,
                  intervalsText |-> Join(ls, sep), cx |-> 200 * Scale,
                  cy |-> 200 * Scale, radius |-> 140 * Scale,
                  periodCents |-> parsePeriodToCents(p), done |-> FALSE]
    /\ ret = <<>>

InitLines == InitParse \/ InitScenarios

NextLines ==
    \/ CallParse
    \/ CallItems

SpecLines == InitLines /\ [][NextLines]_vars

(***************************************************************************)
(* SpecPeriod: parsePeriodToCents applied to every text of at most         *)
(* MaxTokLen characters of TokenChars and to the texts of LongPeriods,     *)
(* next to parseCentsOrRatioToCents on                                     *)
(* the same text, then normalizePeriodLabel on the text and its cents, and *)
(* parsePeriodToCents on that label.                                       *)
(***************************************************************************)
\* period texts longer than MaxTokLen
LongPeriods ==
    { <<"1", "2", "0", "0">>, <<"1", "2", "0", "0", "c">>,
      <<"1", "2", "0", "0", " ", "c">>, <<" ", "7", "0", "2", "¢", " ">>,
      <<"2", "/", "1", "/", "c">>, <<"3", " ", "/", " ", "2">> }

InitPeriod ==
    /\ NoPage
    /\ \E t \in Texts(TokenChars, MaxTokLen) \cup LongPeriods :
          call = [fn |-> "parsePeriodToCents", str |-> t, done |-> FALSE]
    /\ ret = <<>>

CallPeriod ==
    /\ ~call.done
    /\ call.fn = "parsePeriodToCents"
    /\ \E periodCents \in {parsePeriodToCents(call.str)} :
       \E periodLabel \in {normalizePeriodLabel(call.str, periodCents)} :
          ret' = [periodCents |-> periodCents,
                  token |-> parseCentsOrRatioToCents(call.str),
                  periodLabel |-> periodLabel,
                  reparsed |-> parsePeriodToCents(periodLabel)]
    /\ call' = [call EXCEPT !.done = TRUE]
    /\ UNCHANGED page

NextPeriod == CallPeriod

SpecPeriod == InitPeriod /\ [][NextPeriod]_vars

(***************************************************************************)
(* SpecFilename: getFilename applied to every extension, the filename      *)
(* field missing or holding any text of at most MaxNameLen characters of   *)
(* NameChars.                                                              *)
(***************************************************************************)
NameChars == {"a", "b", ".", " ", "\t"}

Extensions == { <<"s", "v", "g">>, <<"p", "n", "g">>, <<"j", "p", "g">> }

FilenameFields ==
    {[present |-> FALSE, value |-> <<>>]}
    \cup {[present |-> TRUE, value |-> t] : t \in Texts(NameChars, MaxNameLen)}

InitFilename ==
    /\ periodInput = <<>>
    /\ intervalsTA = <<>>
    /\ showCircle = TRUE
    /\ showRays = TRUE
    /\ showLabels = TRUE
    /\ circleSize = <<>>
    /\ labelDistance = <<>>
    /\ labelSize = <<>>
    /\ exportFilename \in FilenameFields
    /\ panel = [width |-> 0, height |-> 0, headerH |-> 0, padTop |-> 0,
                padBottom |-> 0]
    /\ container = [width |-> 0, height |-> 0]
    /\ dims = [W |-> 0, H |-> 0, cx |-> 0, cy |-> 0, radius |-> 0]
    /\ svg = [width |-> 0, height |-> 0, children |-> <<>>]
    /\ exports = <<>>
    /\ downloads = <<>>
    /\ console = <<>>
    /\ \E extension \in Extensions :
          call = [fn |-> "getFilename", extension |-> extension,
                  done |-> FALSE]
    /\ ret = <<>>

CallFilename ==
    /\ ~call.done
    /\ ret' = getFilename(call.extension)
    /\ call' = [call EXCEPT !.done = TRUE]
    /\ UNCHANGED page

NextFilename == CallFilename

SpecFilename == InitFilename /\ [][NextFilename]_vars

(***************************************************************************)
(* SpecFrame: the frame computations.  calculateExportDimensions is run    *)
(* on a page whose wrapper, slider, label distance and label toggle are    *)
(* drawn from the sets below; calculateDimensions is run on a rectangle    *)
(* with two multipliers.  The call keeps the numbers the texts stand for.  *)
(***************************************************************************)
\* sides of the measured rectangle, in thousandths
Sides == {0, 300 * Scale, 400 * Scale, 618 * Scale, 900 * Scale + 500}

\* values of the circle size slider, with the number each stands for
SliderValues ==
    { [text |-> <<"1">>, value |-> Scale],
      [text |-> <<"1", ".", "0">>, value |-> Scale],
      [text |-> <<"0", ".", "5">>, value |-> 500],
      [text |-> <<"0", ".", "7">>, value |-> 700],
      [text |-> <<"1", ".", "5">>, value |-> 1500] }

\* values of the label distance control, with the number each stands for
\* (an empty value falls back to DEFAULTS.LABEL_DISTANCE)
DistanceValues ==
    { [text |-> <<"3", "5">>, value |-> 35 * Scale],
      [text |-> <<>>, value |-> 35 * Scale],
      [text |-> <<"0">>, value |-> 0],
      [text |-> <<"1", "2", ".", "5">>, value |-> 12500],
      [text |-> <<"6", "0">>, value |-> 60 * Scale] }

\* multipliers passed to calculateDimensions, in thousandths
Multipliers == {-1000, 0, 500, 700, 1000, 1500, 2000}

InitFrame ==
    /\ periodInput = <<>>
    /\ intervalsTA = <<>>
    /\ showCircle = TRUE
    /\ showRays = TRUE
    /\ labelSize = <<>>
    /\ exportFilename = [present |-> TRUE, value |-> <<>>]
    /\ panel = [width |-> 0, height |-> 0, headerH |-> 0, padTop |-> 0,
                padBottom |-> 0]
    /\ dims = [W |-> 0, H |-> 0, cx |-> 0, cy |-> 0, radius |-> 0]
    /\ svg = [width |-> 0, height |-> 0, children |-> <<>>]
    /\ exports = <<>>
    /\ downloads = <<>>
    /\ console = <<>>
    /\ ret = <<>>
    /\ \E w \in Sides, h \in Sides :
          /\ container = [width |-> w, height |-> h]
          /\ \/ \E sv \in SliderValues, dv \in DistanceValues, b \in BOOLEAN :
                   /\ circleSize = sv.text
                   /\ labelDistance = dv.text
                   /\ showLabels = b
                   /\ call = [fn |-> "calculateExportDimensions",
                              width |-> w, height |-> h,
                              m1 |-> sv.value, m2 |-> sv.value,
                              offset |-> dv.value, done |-> FALSE]
             \/ \E m1 \in Multipliers, m2 \in Multipliers :
                   /\ circleSize = <<>>
                   /\ labelDistance = <<>>
                   /\ showLabels = TRUE
                   /\ call = [fn |-> "calculateDimensions",
                              width |-> w, height |-> h,
                              m1 |-> m1, m2 |-> m2,
                              offset |-> 0, done |-> FALSE]

CallExportDimensions ==
    /\ ~call.done
    /\ call.fn = "calculateExportDimensions"
    /\ ret' = <<calculateExportDimensions(Controls, container)>>
    /\ call' = [call EXCEPT !.done = TRUE]
    /\ UNCHANGED page

CallDimensions ==
    /\ ~call.done
    /\ call.fn = "calculateDimensions"
    /\ ret' = <<calculateDimensions(container, call.m1),
                calculateDimensions(container, call.m2)>>
    /\ call' = [call EXCEPT !.done = TRUE]
    /\ UNCHANGED page

NextFrame ==
    \/ CallExportDimensions
    \/ CallDimensions

SpecFrame == InitFrame /\ [][NextFrame]_vars

(***************************************************************************)
(* Claims about the parser and the layout engine.                          *)
(***************************************************************************)
DegInRange(deg) == deg.k = "fin" /\ 0 <= deg.n /\ deg.n < 360 * deg.d

\* C1: for a finite non-zero period, every item buildItems returns has its
\* angle in [0, 360), whatever the sign of the interval or of the period.
C1_AngleInRange ==
    (call.done /\ isFinite(call.periodCents) /\ call.periodCents.v # 0)
        => \A i \in 1..Len(ret) : DegInRange(ret[i].deg)

\* C2: the angle of cents equals the angle of cents + k * period, for every
\* integer k and every finite non-zero period.
C2_AnglePeriodic == call.done => ret[1] = ret[2]

\* C3: every token parseCentsOrRatioToCents returns has finite cents.
C3_TokenCentsFinite == (call.done /\ ret # Null) => isFinite(ret.cents)

\* C4: buildItems returns a non-empty list whose first element is the period
\* item, of type 'period', at angle 0 and at (cx, cy - radius), for every
\* period text and interval text.
C4_PeriodFirst ==
    call.done =>
        /\ Len(ret) >= 1
        /\ ret[1].type = "period"
        /\ ret[1].deg = Deg(0, 1)
        /\ ret[1].x = Lit(call.cx)
        /\ ret[1].y = Lit(call.cy - call.radius)

\* a call with an unusable period and two parseable interval lines
C4_Witness ==
    /\ call.done
    /\ ~isFinite(call.periodCents)
    /\ Len(ret) = 3
    /\ ret[1].type = "period"

\* the lines of the call that parse, by index
ParseableLines ==
    {i \in 1..Len(call.lines) : parseCentsOrRatioToCents(call.lines[i]) # Null}

\* C5: the items after the period are the parseable lines of the interval
\* text, one item each, in the order of the lines, equal angles included.
C5_ItemsAreParsedLines ==
    call.done =>
        /\ Len(ret) = 1 + Cardinality(ParseableLines)
        /\ \A i \in ParseableLines :
              LET j == 1 + Cardinality({m \in ParseableLines : m <= i})
                  it == parseCentsOrRatioToCents(call.lines[i])
              IN /\ ret[j].raw = Trim(call.lines[i])
                 /\ ret[j].cents = it.cents
                 /\ ret[j].type = it.type
                 /\ ret[j].deg = degOf(it.cents, call.periodCents)

\* two different lines at the same angle, both kept
C5_Witness ==
    /\ call.done
    /\ isFinite(call.periodCents)
    /\ Len(ret) = 3
    /\ ret[2].deg = ret[3].deg
    /\ ret[2].deg.k = "fin"
    /\ ret[2].raw # ret[3].raw


(***************************************************************************)
(* Claims about the two consumption modes: the live page and the export.   *)
(***************************************************************************)
\* C6: after any sequence of input and resize events, the radius an export
\* invoked now computes is the radius the last live draw used.
C6_ExportRadiusIsLiveRadius ==
    calculateExportDimensions(Controls, container).radius = dims.radius

C6_Witness ==
    /\ panel # InitialControls.panel
    /\ circleSize # InitialControls.circleSize
    /\ dims.radius # draw(InitialControls).dims.radius
    /\ calculateExportDimensions(Controls, container).radius = dims.radius

PeriodInvalid ==
    LET periodCents == parsePeriodToCents(periodInput)
    IN ~isFinite(periodCents) \/ periodCents.v = 0

\* C7: when the period text is empty, unparseable, or parses to zero or to a
\* non-finite value, the live surface holds the background rectangle and
\* nothing else, and so does the scene createExportSVG returns, whatever the
\* toggles say.
C7_BlankOnInvalidPeriod ==
    /\ periodInput \in { <<>>, <<"a">>, <<"0">>, <<"0", "/", "1">>,
                         <<"-", "1", "/", "2">> } => PeriodInvalid
    /\ PeriodInvalid =>
          /\ svg.children = <<RectEl(svg.width, svg.height, "none")>>
          /\ LET exportSvg == createExportSVG(Controls, container)
             IN exportSvg.children
                   = <<RectEl(exportSvg.width, exportSvg.height, "")>>

C7_Witness ==
    /\ periodInput = <<"0">>
    /\ showCircle /\ showRays /\ showLabels
    /\ intervalsTA # InitialControls.intervalsTA
    /\ Len(svg.children) = 1
    /\ Len(createExportSVG(Controls, container).children) = 1


(***************************************************************************)
(* Claims about raster exports in flight.                                  *)
(***************************************************************************)
\* the downloads the raster export i has triggered
DownloadsOf(i) == {k \in 1..Len(downloads) : downloads[k].id = i}

\* what export i draws: the scene of its click, at the size of its click
OwnDrawing(i) ==
    [image |-> exports[i].shot, scale |-> EXPORT_SCALE,
     width |-> exports[i].shot.width, height |-> exports[i].shot.height]

CapturedSceneKept(i) ==
    /\ exports[i].svgString.xml = exports[i].shot
    /\ \A n \in 1..Len(exports[i].canvas.drawn) :
          exports[i].canvas.drawn[n] = OwnDrawing(i)
    /\ \A k \in DownloadsOf(i) :
          downloads[k].content.drawn = <<OwnDrawing(i)>>

\* C8 as stated: a raster export that has started always completes with the
\* scene captured at its click: once its callbacks have run it has
\* downloaded, and what it draws and downloads is the captured scene.
C8_AlwaysCompletesAsCaptured ==
    \A i \in 1..Len(exports) :
       /\ CapturedSceneKept(i)
       /\ exports[i].stage \notin {"loading", "encoding"}
             => DownloadsOf(i) # {}

\* what a step may do to export i: leave it alone, or run one of its own
\* callbacks; what it captured at the click stays
StepOfExport(i) ==
    /\ i <= Len(exports')
    /\ exports'[i].format = exports[i].format
    /\ exports'[i].svgString = exports[i].svgString
    /\ exports'[i].squareSize = exports[i].squareSize
    /\ \/ exports'[i] = exports[i]
       \/ /\ exports[i].stage = "loading"
          /\ exports'[i].stage \in {"encoding", "failed"}
       \/ /\ exports[i].stage = "encoding"
          /\ exports'[i].stage = "done"

\* C8 amended: a raster export that has started draws and downloads the
\* scene captured at its click: an input event in between changes neither
\* the exports in flight nor the downloads, every step leaves an export
\* alone or runs its pending callback, and an export ends without a
\* download only when its image decode has failed.
C8_CompletesAsCapturedUnlessDecodeFails ==
    [][ /\ \A i \in 1..Len(exports) : StepOfExport(i)
        /\ dom' # dom => exports' = exports /\ downloads' = downloads
        /\ \A i \in 1..Len(exports') :
              /\ CapturedSceneKept(i)'
              /\ exports'[i].stage \notin {"loading", "encoding"}
                    => DownloadsOf(i)' # {} \/ exports'[i].decoded = "error"
      ]_vars

C8_Witness ==
    \E i \in 1..Len(exports) :
       /\ exports[i].stage = "done"
       /\ \E k \in DownloadsOf(i) :
             downloads[k].content.drawn = <<OwnDrawing(i)>>
       /\ exports[i].shot # createExportSVG(Controls, container)
       /\ exports[i].shot.width # createExportSVG(Controls, container).width

\* C9: an export whose image decode failed triggers no download, draws
\* nothing, only logs the failure and is never started again; every raster
\* download comes from an export whose decode succeeded.
C9_NoDownloadOnDecodeFailure ==
    /\ \A k \in 1..Len(downloads) :
          downloads[k].id # 0 => exports[downloads[k].id].decoded = "ok"
    /\ \A i \in 1..Len(exports) :
          exports[i].decoded = "error" =>
             /\ exports[i].stage = "failed"
             /\ DownloadsOf(i) = {}
             /\ exports[i].canvas.drawn = <<>>
             /\ exports[i].loads = 1
    /\ Len(console)
          = Cardinality({i \in 1..Len(exports) : exports[i].decoded = "error"})

C9_Witness ==
    \E i, j \in 1..Len(exports) :
       /\ i < j
       /\ exports[i].decoded = "error"
       /\ DownloadsOf(i) = {}
       /\ exports[j].stage = "done"
       /\ Len(console) = 1

\* the bitmap export i encodes: its own canvas, filled for jpg, with its
\* own drawing
OwnBitmap(i) ==
    [width |-> exports[i].shot.width * EXPORT_SCALE,
     height |-> exports[i].shot.height * EXPORT_SCALE,
     fill |-> IF exports[i].format = "jpg" THEN "white" ELSE "none",
     drawn |-> <<OwnDrawing(i)>>]

\* C10: under every interleaving of the callbacks of the exports in flight,
\* an export whose decode succeeded has its own scene on its own canvas and
\* triggers one download, of that bitmap in its own format, and no more;
\* the canvas of an export still decoding is untouched.
C10_ExportsDoNotInterfere ==
    \A i \in 1..Len(exports) :
       /\ Cardinality(DownloadsOf(i))
             = IF exports[i].stage = "done" THEN 1 ELSE 0
       /\ exports[i].decoded = "ok" =>
             /\ exports[i].stage \in {"encoding", "done"}
             /\ exports[i].canvas = OwnBitmap(i)
       /\ exports[i].decoded # "ok" => exports[i].canvas.drawn = <<>>
       /\ \A k \in DownloadsOf(i) :
             /\ downloads[k].content = OwnBitmap(i)
             /\ downloads[k].type = MimeOf(exports[i].format)
             /\ downloads[k].name = getFilename(ExtensionOf(exports[i].format))

C10_Witness ==
    \E i, j \in 1..Len(exports) :
       /\ i < j
       /\ exports[i].format # exports[j].format
       /\ exports[i].shot # exports[j].shot
       /\ exports[i].squareSize # exports[j].squareSize
       /\ \E k, m \in 1..Len(downloads) :
             /\ k < m
             /\ downloads[k].id = j /\ downloads[k].content = OwnBitmap(j)
             /\ downloads[m].id = i /\ downloads[m].content = OwnBitmap(i)


(***************************************************************************)
(* Claims about file names and the export frame.                           *)
(***************************************************************************)
\* the positions of the characters of a text that are not white space
Inked(t) == {i \in 1..Len(t) : ~IsSpace(t[i])}

\* C11: getFilename(extension) is the name, a dot and the extension; the
\* name is the text of the filename field from its first to its last
\* character that is not white space, and 'pitch-class-circle' when the
\* field is missing, empty or all white space.
C11_FilenameIsNameDotExtension ==
    call.done =>
       LET v == exportFilename.value
           name == IF exportFilename.present /\ Inked(v) # {}
                   THEN SubSeq(v, Least(Inked(v)),
                               CHOOSE i \in Inked(v) : \A j \in Inked(v) : j <= i)
                   ELSE DefaultName
       IN /\ ret = name \o <<".">> \o call.extension
          /\ call.extension \in Extensions

C11_Witness ==
    /\ call.done
    /\ exportFilename.present
    /\ exportFilename.value = <<" ", "a", "\t">>
    /\ ret = <<"a", ".", "j", "p", "g">>


\* max(20, min(max(width, 400), max(height, 400)) / 2 - 60) * multiplier,
\* in thousandths
FrameRadius(width, height, multiplier) ==
    LET side == IF width < 400000 \/ height < 400000 THEN 400000
                ELSE IF width <= height THEN width ELSE height
        half == side \div 2 - 60000
    IN ((IF half < 20000 THEN 20000 ELSE half) * multiplier) \div 1000

\* max(300, ceil(2 * x)) for x in thousandths, in thousandths
FrameSize(x) ==
    LET whole == ((2 * x + 999) \div 1000) * 1000
    IN IF whole < 300000 THEN 300000 ELSE whole

\* C12: the export frame has radius
\* max(20, min(max(width,400), max(height,400))/2 - 60) * sizeMultiplier and
\* size max(300, ceil((radius + labelOffset + 30) * 2)), labelOffset being
\* the label distance when labels are shown and 0 when they are hidden; a
\* 400x400 area, multiplier 1 and labels shown at 35 give radius 140 and
\* size 410.
C12_ExportFrame ==
    (call.done /\ call.fn = "calculateExportDimensions") =>
       LET radius == FrameRadius(call.width, call.height, call.m1)
           labelOffset == IF showLabels THEN call.offset ELSE 0
       IN /\ ret[1].radius = radius
          /\ ret[1].size = FrameSize(radius + labelOffset + 30000)
          /\ (/\ call.width = 400000 /\ call.height = 400000
              /\ call.m1 = 1000 /\ showLabels /\ call.offset = 35000)
                => ret[1].radius = 140000 /\ ret[1].size = 410000

C12_Witness ==
    /\ call.done /\ call.fn = "calculateExportDimensions"
    /\ container = [width |-> 400000, height |-> 400000]
    /\ circleSize = <<"1", ".", "0">>
    /\ showLabels /\ labelDistance = <<"3", "5">>
    /\ ret[1].radius = 140000 /\ ret[1].size = 410000

\* C13: for a fixed width and height, the radius calculateDimensions
\* returns does not decrease when the size multiplier grows.
C13_RadiusMonotonic ==
    (call.done /\ call.fn = "calculateDimensions" /\ call.m1 <= call.m2)
       => ret[1].radius <= ret[2].radius

C13_Witness ==
    /\ call.done /\ call.fn = "calculateDimensions"
    /\ call.m1 < call.m2
    /\ container.width > 400000 /\ container.height > container.width
    /\ ret[1].radius < ret[2].radius


(***************************************************************************)
(* Claims about the tokens of the parser.                                  *)
(***************************************************************************)
\* digits, a point, digits: a decimal written without sign, unit or slash
BareDecimal(t) ==
    \E i \in 2..(Len(t) - 1) :
       /\ t[i] = "."
       /\ \A j \in 1..Len(t) : j # i => t[j] \in Digits

\* C14: a token that is a bare positive decimal such as 1.5 is read as a
\* frequency ratio: the result has type 'ratio' and cents 1200*log2 of the
\* decimal, not the decimal as a number of cents.
C14_BareDecimalIsRatio ==
    (call.done /\ BareDecimal(call.token) /\ Number(call.token).v > 0) =>
       /\ ret.type = "ratio"
       /\ ret.cents = log2Cents(Ratio(Number(call.token).v, Scale))


\* the characters a cents value or a ratio is written with
GrammarChars == Digits \cup {"-", "+", ".", "/", "c", "C", "¢"}

\* C15: parseCentsOrRatioToCents returns none for the empty text, for white
\* space only, for a text whose first character after the white space is
\* '#', and for a text with a character no cents value or ratio is written
\* with; so the three lines '#ignore this', '' and '400' give one interval
\* item, the one of 400.
C15_NoneForBlankCommentAndGarbage ==
    /\ (call.done /\ call.fn = "parseCentsOrRatioToCents") =>
          ((\/ Inked(call.token) = {}
            \/ call.token[Least(Inked(call.token))] = "#"
            \/ \E i \in Inked(call.token) : call.token[i] \notin GrammarChars)
              => ret = Null)
    /\ (call.done /\ call.fn = "buildItems") =>
          /\ \A i \in 1..Len(call.lines) :
                (\E j \in 1..Len(call.lines[i]) :
                    call.lines[i][j] \in {"#", "a", "b"})
                   => \A n \in 1..Len(ret) : ret[n].raw # Trim(call.lines[i])
          /\ (Len(call.lines) = 3 /\ call.lines[2] = <<>>
              /\ call.lines[1] # <<>> /\ Head(call.lines[1]) = "#"
              /\ call.lines[3] = <<"4", "0", "0">>)
                => /\ Len(ret) = 2
                   /\ ret[2].raw = <<"4", "0", "0">>
                   /\ ret[2].cents = Fin(400 * Scale)
                   /\ ret[2].type = "cents"



(***************************************************************************)
(* Claims about the period.                                                *)
(***************************************************************************)
\* C16: on a text that is not a comment, parsePeriodToCents returns the
\* cents of the token parseCentsOrRatioToCents returns, and NaN when that
\* returns none, white space before the unit marker included.
C16_PeriodParsesAsToken ==
    (call.done /\ Inked(call.str) # {}
       /\ call.str[Least(Inked(call.str))] # "#") =>
       IF ret.token = Null THEN ret.periodCents = NaN
       ELSE ret.periodCents = ret.token.cents

\* C17: a period text whose cents are finite has a label that parses to the
\* same cents.
C17_LabelParsesToSameCents ==
    (call.done /\ isFinite(ret.periodCents)) => ret.reparsed = ret.periodCents


\* the documented scenario: period 2/1 and the lines 0, 700, 1200
ScenarioOctave ==
    /\ call.fn = "buildItems"
    /\ call.periodInputValue = <<"2", "/", "1">>
    /\ call.lines = <<<<"0">>, <<"7", "0", "0">>, <<"1", "2", "0", "0">>>>

\* C18: with period 2/1 and the lines 0, 700, 1200 the period is 1200 cents
\* and buildItems returns the period at angle 0, then 0, 700 and 1200 cents
\* at the angles 0, 210 and 0.
C18_OctaveScenario ==
    ScenarioOctave =>
        /\ call.periodCents = Fin(1200 * Scale)
        /\ call.done =>
              /\ [i \in DOMAIN ret |-> ret[i].type]
                    = <<"period", "cents", "cents", "cents">>
              /\ [i \in DOMAIN ret |-> ret[i].cents]
                    = <<Fin(0), Fin(0), Fin(700 * Scale), Fin(1200 * Scale)>>
              /\ [i \in DOMAIN ret |-> ret[i].deg]
                    = <<Deg(0, 1), Deg(0, 1), Deg(210, 1), Deg(0, 1)>>

\* the scenario has been built, from a text with CR LF line ends
C18_Witness ==
    /\ ScenarioOctave
    /\ call.done
    /\ Len(ret) = 4
    /\ Includes(call.intervalsText, "\r")


\* the values, in thousandths, of t read as an optional '-', digits, an
\* optional point and digits, and an optional unit marker: one value when t
\* has that form, none otherwise
CentsReading(t) ==
    LET neg == t # <<>> /\ Head(t) = "-"
        marked == t # <<>> /\ t[Len(t)] \in {"c", "C", "¢"}
        num == SubSeq(t, IF neg THEN 2 ELSE 1,
                      IF marked THEN Len(t) - 1 ELSE Len(t))
        parts == Split(num, ".")
    IN IF /\ Len(parts) \in {1, 2}
          /\ \A k \in 1..Len(parts) : parts[k] # <<>> /\ AllDigits(parts[k])
       THEN {(IF neg THEN -1 ELSE 1)
               * (DigitsVal(parts[1]) * Scale
                    + IF Len(parts) = 2 THEN FracVal(parts[2]) ELSE 0)}
       ELSE {}

IsFraction(t) ==
    /\ Len(Split(t, "/")) = 2
    /\ isFinite(Number(Split(t, "/")[1]))
    /\ isFinite(Number(Split(t, "/")[2]))
    /\ Number(Split(t, "/")[2]).v # 0

\* 1200 * log2(a / b) for a and b in thousandths, b # 0, from the prime
\* factors of a and of b
FractionCents(a, b) ==
    IF a = 0 THEN NegInf
    ELSE IF (a < 0) # (b < 0) THEN NaN
    ELSE Fin(CentsOfInt(Abs(a), 2) - CentsOfInt(Abs(b), 2))

\* C20: a token a/b of two finite numbers, b not zero, gives type 'ratio',
\* 1200*log2(a/b) as cents, and the text as entered, without the white space
\* around it, as raw.
C20_FractionIsRatio ==
    (call.done /\ IsFraction(Trim(call.token))) =>
       ret = [cents |-> FractionCents(Number(Split(Trim(call.token), "/")[1]).v,
                                      Number(Split(Trim(call.token), "/")[2]).v),
              raw |-> Trim(call.token),
              type |-> "ratio"]

\* the token 5/2 has been parsed
C20_Witness ==
    /\ call.done
    /\ call.token = <<"5", "/", "2">>
    /\ ret.type = "ratio"
    /\ ret.cents = Fin(PrimeCents[5] - PrimeCents[2])


(***************************************************************************)
(* Claims about slashes, bitmaps and the two scenes.                       *)
(***************************************************************************)
\* C21: a token with two or more '/' is not read as the ratio of its first
\* two parts: parseCentsOrRatioToCents returns none for it, and buildItems
\* places no item for such a line.
C21_SingleSlashOnly ==
    /\ (call.done /\ call.fn = "parseCentsOrRatioToCents"
          /\ Cardinality(Positions(call.token, "/")) >= 2) => ret = Null
    /\ (call.done /\ call.fn = "buildItems") =>
          \A i \in 1..Len(call.lines) :
             Cardinality(Positions(call.lines[i], "/")) >= 2
                => \A n \in 1..Len(ret) : ret[n].raw # Trim(call.lines[i])


\* C22: the canvas of every raster export is twice the export frame in width
\* and in height, and once the image is drawn the canvas is filled white
\* exactly when the format is jpg; this is the bitmap the download carries.
C22_BitmapTwiceFrameWhiteForJpg ==
    /\ \A i \in 1..Len(exports) :
          /\ exports[i].canvas.width = 2 * exports[i].shot.width
          /\ exports[i].canvas.height = 2 * exports[i].shot.height
          /\ exports[i].canvas.drawn = <<>> => exports[i].canvas.fill = "none"
          /\ exports[i].canvas.drawn # <<>> =>
                (exports[i].canvas.fill = "white" <=> exports[i].format = "jpg")
    /\ \A k \in 1..Len(downloads) :
          downloads[k].id # 0 =>
             /\ downloads[k].content.width = 2 * exports[downloads[k].id].shot.width
             /\ (downloads[k].content.fill = "white"
                   <=> downloads[k].type = "image/jpeg")

\* a png and a jpg export of frames of different sizes, both downloaded
C22_Witness ==
    /\ Len(exports) = 2
    /\ exports[1].format = "png" /\ exports[2].format = "jpg"
    /\ exports[1].shot.width # exports[2].shot.width
    /\ exports[1].stage = "done" /\ exports[2].stage = "done"
    /\ exports[2].canvas.fill = "white"


\* the groups of a scene: one per item, its point and its label
Groups(scene) == SelectSeq(scene.children, LAMBDA e : e.tag = "g")

\* a coordinate as an offset from the centre c
Offset(co, c) == [co EXCEPT !.c = @ - c]

\* what a group shows of its item: where the point is from the centre, and
\* the text, the size and the place of the label
ItemShown(g, cx, cy) ==
    [x |-> Offset(g.pt.cx, cx), y |-> Offset(g.pt.cy, cy),
     label |-> [n \in DOMAIN g.label |->
                  [text |-> g.label[n].text, fontSize |-> g.label[n].fontSize,
                   x |-> Offset(g.label[n].x, cx),
                   y |-> Offset(g.label[n].y, cy)]]]

ItemsShown(scene, cx, cy) ==
    [n \in DOMAIN Groups(scene) |-> ItemShown(Groups(scene)[n], cx, cy)]

\* C23: the live scene and the scene an export invoked now builds show the
\* same items: as many, in the same order, with the same labels, the same
\* angles and the same offsets from the centre of their own scene.
C23_ExportShowsLiveItems ==
    ItemsShown(svg, dims.cx, dims.cy)
       = ItemsShown(createExportSVG(Controls, container),
                    calculateExportDimensions(Controls, container).cx,
                    calculateExportDimensions(Controls, container).cy)

\* three items with labels on a live canvas larger than the export frame
C23_Witness ==
    /\ Len(Groups(svg)) = 3
    /\ showLabels
    /\ circleSize = <<"0", ".", "5">>
    /\ svg.width > createExportSVG(Controls, container).width
    /\ dims.cx # calculateExportDimensions(Controls, container).cx
    /\ Len(Groups(createExportSVG(Controls, container))) = 3


\* the coordinate co, of centre c, is at most reach from c
Within(co, c, reach) ==
    IF co.k = "lit" THEN Abs(co.c - c) <= reach
    ELSE co.c = c /\ co.r >= 0 /\ co.r <= reach

\* every ray end, point and label anchor of the scene is within reach of
\* the centre (cx, cy)
SceneWithin(scene, cx, cy, reach) ==
    \A n \in DOMAIN scene.children :
       LET e == scene.children[n]
       IN /\ e.tag = "line" => /\ Within(e.x2, cx, reach)
                               /\ Within(e.y2, cy, reach)
          /\ e.tag = "g" =>
                /\ Within(e.pt.cx, cx, reach)
                /\ Within(e.pt.cy, cy, reach)
                /\ \A m \in DOMAIN e.label :
                      /\ Within(e.label[m].x, cx, reach)
                      /\ Within(e.label[m].y, cy, reach)

\* the label offset an export invoked now uses for its frame
ExportLabelOffset ==
    IF showLabels THEN labelDistOf(labelDistance).v ELSE 0

\* C24: for a radius and a label offset that are not negative, the export
\* frame is at least 300 and at least 2 * (radius + label offset + 30) in
\* size, its centre is (size / 2, size / 2), and every ray end, point and
\* label anchor of the export scene is at least 30 inside the frame's edge.
C24_ExportFrameHoldsDiagram ==
    LET f == calculateExportDimensions(Controls, container)
    IN (f.radius >= 0 /\ ExportLabelOffset >= 0) =>
          /\ f.size >= 300 * Scale
          /\ f.size >= 2 * (f.radius + ExportLabelOffset + 30 * Scale)
          /\ 2 * f.cx = f.size /\ 2 * f.cy = f.size
          /\ createExportSVG(Controls, container).width = f.size
          /\ SceneWithin(createExportSVG(Controls, container), f.cx, f.cy,
                         f.size \div 2 - 30 * Scale)

\* an export scene with rays and three labelled items in a frame above the
\* minimum size
C24_Witness ==
    /\ showLabels /\ showRays
    /\ labelDistance = <<"3", "5">>
    /\ Len(Groups(createExportSVG(Controls, container))) = 3
    /\ calculateExportDimensions(Controls, container).size > 300 * Scale


\* the rays of a scene
Rays(scene) == SelectSeq(scene.children, LAMBDA e : e.tag = "line")

\* a coordinate with cos(-90 degrees) = 0 and sin(-90 degrees) = -1 worked
\* out, as the period item has them
Spot(co) ==
    IF co.k = "trig" /\ co.deg = Deg(0, 1)
    THEN Lit(IF co.f = "cos" THEN co.c ELSE co.c - co.r)
    ELSE co

\* the rays of a scene of centre (cx, cy) and radius r: as many as groups,
\* each from the centre to the circle, ending where its item's point is
RaysMeetPoints(scene, cx, cy, r) ==
    /\ Len(Rays(scene)) = Len(Groups(scene))
    /\ \A n \in DOMAIN Rays(scene) :
          LET ray == Rays(scene)[n]
              pt == Groups(scene)[n].pt
          IN /\ ray.x1 = Lit(cx) /\ ray.y1 = Lit(cy)
             /\ ray.x2.k = "trig" /\ ray.x2.f = "cos"
             /\ ray.x2.c = cx /\ ray.x2.r = r
             /\ ray.y2.k = "trig" /\ ray.y2.f = "sin"
             /\ ray.y2.c = cy /\ ray.y2.r = r
             /\ ray.x2.deg = ray.y2.deg
             /\ Spot(ray.x2) = Spot(pt.cx)
             /\ Spot(ray.y2) = Spot(pt.cy)

\* C25: with rays shown, the live scene and the export scene have one ray
\* per item, from the centre to the circle of the frame's radius at the
\* item's angle, so that each ray ends at the point of its item; with rays
\* hidden there is none.
C25_RaysEndOnPoints ==
    LET f == calculateExportDimensions(Controls, container)
        exportSvg == createExportSVG(Controls, container)
    IN IF showRays
       THEN /\ RaysMeetPoints(svg, dims.cx, dims.cy, dims.radius)
            /\ RaysMeetPoints(exportSvg, f.cx, f.cy, f.radius)
       ELSE Rays(svg) = <<>> /\ Rays(exportSvg) = <<>>

\* three rays in the live scene and in the export scene
C25_Witness ==
    /\ showRays
    /\ Len(Rays(svg)) = 3
    /\ Len(Rays(createExportSVG(Controls, container))) = 3
    /\ circleSize = <<"0", ".", "5">>


\* the labels of a scene of centre (cx, cy) and radius r: one per group, at
\* the angle of the group's point, on a circle larger than the circle of
\* the points
LabelsOutsidePoints(scene, cx, cy, r) ==
    \A n \in DOMAIN Groups(scene) :
       LET g == Groups(scene)[n]
       IN /\ Len(g.label) = 1
          /\ g.label[1].x.k = "trig" /\ g.label[1].x.f = "cos"
          /\ g.label[1].y.k = "trig" /\ g.label[1].y.f = "sin"
          /\ g.label[1].x.c = cx /\ g.label[1].y.c = cy
          /\ g.label[1].x.deg = g.label[1].y.deg
          /\ g.label[1].x.deg = g.pt.cx.deg
          /\ g.label[1].x.r = g.label[1].y.r
          /\ g.label[1].x.r = r + labelDistOf(labelDistance).v
          /\ g.label[1].x.r > r

\* C26: with labels shown, every label anchor of the live scene and of the
\* export scene is at the angle of its item on the circle of radius
\* radius + label offset, and that circle is larger than the circle of the
\* points for every value of the label distance control, '0' and the empty
\* value included.
C26_LabelCircleLarger ==
    showLabels =>
       /\ labelDistOf(labelDistance).v > 0
       /\ LabelsOutsidePoints(svg, dims.cx, dims.cy, dims.radius)
       /\ LabelsOutsidePoints(createExportSVG(Controls, container),
                              calculateExportDimensions(Controls, container).cx,
                              calculateExportDimensions(Controls, container).cy,
                              calculateExportDimensions(Controls, container).radius)


(***************************************************************************)
(* Claims about the order of a scene and about redrawing.                  *)
(***************************************************************************)
\* the tags of the children of a scene, in order
Tags(scene) == [n \in DOMAIN scene.children |-> scene.children[n].tag]

\* n times the tag t
Repeat(t, n) == [i \in 1..n |-> t]

\* the number of items buildItems returns for the texts on the page
ItemCount ==
    Len(buildItems(periodInput, intervalsTA, 0, 0, 0,
                   parsePeriodToCents(periodInput)))

\* the order of a scene: background over the whole canvas, circle guide when
\* shown, a ray per item when shown, a group per item, labelled when shown
SceneInOrder(scene) ==
    /\ Tags(scene) = <<"rect">>
                     \o (IF showCircle THEN <<"circle">> ELSE <<>>)
                     \o (IF showRays THEN Repeat("line", ItemCount) ELSE <<>>)
                     \o Repeat("g", ItemCount)
    /\ scene.children[1].x = 0 /\ scene.children[1].y = 0
    /\ scene.children[1].width = scene.width
    /\ scene.children[1].height = scene.height
    /\ scene.children[1].fill = "white"
    /\ \A n \in DOMAIN Groups(scene) :
          Len(Groups(scene)[n].label) = IF showLabels THEN 1 ELSE 0

\* an element of a scene of centre (cx, cy), with its places as offsets from
\* the centre
FromCentre(e, cx, cy) ==
    IF e.tag = "circle" THEN [e EXCEPT !.cx = @ - cx, !.cy = @ - cy]
    ELSE IF e.tag = "line"
         THEN [e EXCEPT !.x1 = Offset(@, cx), !.y1 = Offset(@, cy),
                        !.x2 = Offset(@, cx), !.y2 = Offset(@, cy)]
    ELSE IF e.tag = "g"
         THEN [tag |-> "g", shown |-> ItemShown(e, cx, cy)]
    ELSE [tag |-> e.tag, fill |-> e.fill]

\* the children of a scene of centre (cx, cy), every place taken from the
\* centre
ChildrenFromCentre(scene, cx, cy) ==
    [n \in DOMAIN scene.children |-> FromCentre(scene.children[n], cx, cy)]

\* the scene an export invoked now builds
ExportScene == createExportSVG(Controls, container)

\* children without the elements of tag t
Without(children, t) == SelectSeq(children, LAMBDA e : e.tag # t)

\* children with the labels taken out of the groups
Unlabelled(children) ==
    [n \in DOMAIN children |->
       IF children[n].tag = "g" THEN [children[n] EXCEPT !.label = <<>>]
       ELSE children[n]]

\* the scenes before and after a step differ in nothing but elements of the
\* kind of the toggle that changed, if one did
OnlyOwnKind(before, after, circleToggled, raysToggled, labelsToggled) ==
    /\ circleToggled => Without(after, "circle") = Without(before, "circle")
    /\ raysToggled => Without(after, "line") = Without(before, "line")
    /\ labelsToggled => Unlabelled(after) = Unlabelled(before)

\* both scenes are in order, and from its centre the export scene is the
\* live scene
ScenesInOrder ==
    ~PeriodInvalid =>
       Let(ExportScene, LAMBDA exportSvg :
       Let(calculateExportDimensions(Controls, container), LAMBDA f :
          /\ SceneInOrder(svg)
          /\ SceneInOrder(exportSvg)
          /\ ChildrenFromCentre(exportSvg, f.cx, f.cy)
                = ChildrenFromCentre(svg, dims.cx, dims.cy)))

C28_SceneIsOneDraw ==
    /\ [](svg = draw(Controls).svg)
    /\ [][Controls' = Controls => svg' = svg]_vars

\* the scene after events on the period, the intervals, a toggle and the
\* panel: three items without rays on a resized canvas
C28_Witness ==
    /\ periodInput = <<"1", "2">>
    /\ intervalsTA # InitialControls.intervalsTA
    /\ ~showRays
    /\ panel # InitialControls.panel
    /\ svg.width # draw(InitialControls).svg.width
    /\ Tags(svg) = <<"rect", "circle", "g", "g", "g">>


\* t carries a cents unit marker
Marked(t) == \E i \in 1..Len(t) : t[i] \in {"c", "C", "¢"}

\* C29: the label of a period text that parsed is the trimmed text when it
\* contains '/'; the text without its 'c', 'C' and '¢' when it has the cents
\* shape; and otherwise the parsed cents rounded to a whole number; in no
\* case does the label carry a cents unit marker.
C29_PeriodLabelCases ==
    (call.done /\ isFinite(ret.periodCents)) =>
       /\ Includes(call.str, "/") => ret.periodLabel = Trim(call.str)
       /\ (~Includes(call.str, "/") /\ CentsReading(Trim(call.str)) # {}) =>
             ret.periodLabel
                = SelectSeq(Trim(call.str), LAMBDA c : c \notin {"c", "C", "¢"})
       /\ (~Includes(call.str, "/") /\ CentsReading(Trim(call.str)) = {}) =>
             /\ ~Includes(ret.periodLabel, ".")
             /\ isFinite(Number(ret.periodLabel))
             /\ 2 * Abs(Number(ret.periodLabel).v - ret.periodCents.v) <= Scale
       /\ ~Marked(ret.periodLabel)


(***************************************************************************)
(* Claims about the name of an exported file.                              *)
(***************************************************************************)
\* the name the filename field gives now
FieldName ==
    IF Inked(exportFilename.value) = {} THEN DefaultName
    ELSE SubSeq(exportFilename.value, Least(Inked(exportFilename.value)),
                CHOOSE i \in Inked(exportFilename.value) :
                   \A j \in Inked(exportFilename.value) : j <= i)

\* the download a step adds is named by the filename field as it is when
\* the step is taken; for a raster export that step is the toBlob callback
\* and the content is the scene of the click, for a vector export it is the
\* click and the content is the scene of now
NamedWhenDownloaded(d) ==
    /\ d.id = 0 =>
          /\ d.name = FieldName \o <<".", "s", "v", "g">>
          /\ d.content.xml = createExportSVG(Controls, container)
    /\ d.id # 0 =>
          /\ exports[d.id].stage = "encoding"
          /\ d.name = FieldName \o <<".">> \o ExtensionOf(exports[d.id].format)
          /\ d.content.drawn = <<OwnDrawing(d.id)>>

\* C30: a raster export reads the file name when the encoded blob is ready:
\* its download is named by the filename field as edited since the click
\* and carries the scene captured at the click; a vector export reads the
\* name within the click.
C30_NameReadWhenBlobReady ==
    [][Len(downloads') > Len(downloads) =>
          /\ Len(downloads') = Len(downloads) + 1
          /\ NamedWhenDownloaded(downloads'[Len(downloads')])]_vars

\* a raster download whose name is not the name the field gave at the click
C30_Witness ==
    \E k \in 1..Len(downloads) :
       /\ downloads[k].id # 0
       /\ downloads[k].name # exports[downloads[k].id].named
       /\ downloads[k].content.drawn = <<OwnDrawing(downloads[k].id)>>

====
